---- MODULE Spec2Model ----
(***************************************************************************)
(* Model of artifactory_cleanup/loaders.py: the rule registry, the YAML    *)
(* policy loader and the python-file policy loader.                        *)
(***************************************************************************)
EXTENDS Integers, Sequences, FiniteSets, TLC

\* ---------------------------------------------------------------- bounds
\* number of entries of vars(rules) enumerated by register_builtin_rules
MaxItems == 2
\* nodes of a YAML document: policy records plus rule records
MaxDocSize == 5
\* length of the RULES list of a python policies file
MaxRULES == 2

\* ------------------------------------------------------ the rule classes
\* Rule subclasses; Repo is the class imported at loaders.py line 11.
RuleTypes == {"Repo", "RepoLegacy", "OlderThan"}

\* Rule.name(): the name a rule class declares for itself.
DeclName(rule) ==
    CASE rule = "Repo" -> "repo"
      [] rule = "RepoLegacy" -> "repo"
      [] rule = "OlderThan" -> "older_than"

\* keyword parameters a rule class's constructor takes
Signature(rule) ==
    CASE rule = "Repo" -> {"name"}
      [] rule = "RepoLegacy" -> {"name"}
      [] rule = "OlderThan" -> {"days"}

\* the values found in vars(rules): rule classes and one object that is no class
ModuleObjects == RuleTypes \cup {"base"}

\* inspect.isclass(obj) and issubclass(obj, Rule)
IsRuleClass(obj) == obj \in RuleTypes

\* ------------------------------------------------------------- outcomes
\* how a call ends: a returned value, a raised exception, a process exit
Return(v) == [kind |-> "return", value |-> v]
Raise(e, a) == [kind |-> "raise", exc |-> e, arg |-> a]
Exit(s, msg) == [kind |-> "exit", status |-> s, printed |-> msg]

\* ------------------------------------------------------------- registry
\* RuleRegistry.__init__: self._rules = {}
EmptyRegistry == [n \in {} |-> "Repo"]

\* name=None, and the empty string, are falsy in `name or rule.name()`
NoName == "None"
Falsy(name) == name \in {NoName, ""}

\* the names passed to register explicitly
NameArgs == {NoName, "", "repo", "older_than"}

\* the names looked up in the registry
LookupNames == {"repo", "older_than", "nope"}

\* line 25: name = name or rule.name()
EffectiveName(rule, name) == IF Falsy(name) THEN DeclName(rule) ELSE name

\* a faulty get: a missing key is entered with a default instead of raising
get_setdefault(reg, name) ==
    IF name \in DOMAIN reg
    THEN [out |-> Return(reg[name]), rules |-> reg]
    ELSE [out |-> Return("Repo"),
          rules |-> [n \in DOMAIN reg \cup {name} |-> IF n = name THEN "Repo" ELSE reg[n]]]

\* RuleRegistry.get: self._rules[name]; a missing key raises KeyError(name).
\* The dictionary after the lookup is returned next to the outcome.
get(reg, name) ==
    IF name \in DOMAIN reg
    THEN [out |-> Return(reg[name]), rules |-> reg]
    ELSE [out |-> Raise("KeyError", name), rules |-> reg]

\* a faulty register: the warning flag is ignored, the entry always replaced
register_overwrite(reg, rule, name, warning) ==
    LET n0 == EffectiveName(rule, name)
    IN  [n \in DOMAIN reg \cup {n0} |-> IF n = n0 THEN rule ELSE reg[n]]

\* RuleRegistry.register
register(reg, rule, name, warning) ==
    LET n0 == EffectiveName(rule, name)
    IN  IF n0 \in DOMAIN reg /\ warning
        THEN reg
        ELSE [n \in DOMAIN reg \cup {n0} |-> IF n = n0 THEN rule ELSE reg[n]]

\* the loop of register_builtin_rules over vars(rules).items()
RECURSIVE RegisterEach(_, _, _)
RegisterEach(reg, items, warning) ==
    IF items = <<>>
    THEN reg
    ELSE LET obj == Head(items)
             next == IF IsRuleClass(obj) THEN register(reg, obj, NoName, warning) ELSE reg
         IN  RegisterEach(next, Tail(items), warning)

\* a faulty register_builtin_rules: registers with warning=False
register_builtin_rules_nowarn(reg, items) == RegisterEach(reg, items, FALSE)

\* RuleRegistry.register_builtin_rules
register_builtin_rules(reg, items) == RegisterEach(reg, items, TRUE)

\* the contents of vars(rules), in enumeration order
ItemSeqs == UNION {[1..n -> ModuleObjects] : n \in 0..MaxItems}

\* ------------------------------------------------------- rules, policies
\* a rule class stored as it is, and an instance built from keyword arguments
BareType(rule) == [cls |-> rule, inst |-> FALSE, kwargs |-> {}]
Instance(rule, kwargs) == [cls |-> rule, inst |-> TRUE, kwargs |-> kwargs]

\* rule_cls(**rule_data): the constructor rejects keywords it does not take
Construct(rule, kwargs) ==
    IF {p[1] : p \in kwargs} = Signature(rule)
    THEN Return(Instance(rule, kwargs))
    ELSE Raise("TypeError", rule)

\* CleanupPolicy(name, *rules): a bare Repo class becomes Repo(name)
CleanupPolicy(name, rules) ==
    [name |-> name,
     rules |-> [i \in DOMAIN rules |->
                  IF ~rules[i].inst /\ rules[i].cls = "Repo"
                  THEN Instance("Repo", {<<"name", name>>})
                  ELSE rules[i]]]

\* ---------------------------------------------------- YAML configuration
\* rule records of a document: mappings, as sets of <<key, value>> pairs
RuleRecords ==
    { {<<"rule", "repo">>},
      {<<"rule", "repo">>, <<"name", "r">>},
      {<<"rule", "older_than">>, <<"days", "30">>},
      {<<"rule", "nope">>} }

PolicyNames == {"cleanup-a", "cleanup-b"}

\* policy records with n rule records
PolicyRecords(n) == [name : PolicyNames, rules : [1..n -> RuleRecords]]

\* the policies sequences with s nodes (policy records plus rule records)
RECURSIVE PoliciesOfSize(_)
PoliciesOfSize(s) ==
    IF s = 0
    THEN {<<>>}
    ELSE UNION { { <<p>> \o d : p \in PolicyRecords(n), d \in PoliciesOfSize(s - 1 - n) }
                 : n \in 0..(s - 1) }

\* what self.filepath holds: no file, text that is no YAML, YAML without the
\* artifactory-cleanup.policies tree, or a document
YamlFiles ==
    { [state |-> st, policies |-> <<>>] : st \in {"missing", "garbled", "noroot"} }
    \cup { [state |-> "doc", policies |-> d] :
             d \in UNION { PoliciesOfSize(s) : s \in 0..MaxDocSize } }

\* rule_data.pop("rule"): the value of the key, and the mapping without it
PopRule(rule_data) ==
    LET p == CHOOSE q \in rule_data : q[1] = "rule"
    IN  [value |-> p[2], rest |-> rule_data \ {p}]

\* a faulty _build_rule: any class without parameters is returned bare
_build_rule_defer_any(reg, rule_data) ==
    LET popped == PopRule(rule_data)
        found == get(reg, popped.value).out
    IN  IF found.kind = "raise"
        THEN found
        ELSE IF popped.rest = {}
             THEN Return(BareType(found.value))
             ELSE Construct(found.value, popped.rest)

\* a faulty _build_rule: Repo is returned bare whatever its parameters
_build_rule_defer_repo(reg, rule_data) ==
    LET popped == PopRule(rule_data)
        found == get(reg, popped.value).out
    IN  IF found.kind = "raise"
        THEN found
        ELSE IF found.value = "Repo"
             THEN Return(BareType(found.value))
             ELSE Construct(found.value, popped.rest)

\* YamlConfigLoader._build_rule
_build_rule(reg, rule_data) ==
    LET popped == PopRule(rule_data)
        found == get(reg, popped.value).out
    IN  IF found.kind = "raise"
        THEN found
        ELSE IF found.value = "Repo" /\ popped.rest = {}
             THEN Return(BareType(found.value))
             ELSE Construct(found.value, popped.rest)

\* line 60: rules.append(rule)
AppendRule(rules, rule) == Append(rules, rule)

\* a faulty line 62: the policy is put in front
PrependPolicy(policies, policy) == <<policy>> \o policies

\* line 62: policies.append(policy)
AppendPolicy(policies, policy) == Append(policies, policy)

\* lines 58-60: the loop over policy_data["rules"]
RECURSIVE BuildRules(_, _, _)
BuildRules(reg, rules_data, rules) ==
    IF rules_data = <<>>
    THEN Return(rules)
    ELSE LET r == _build_rule(reg, Head(rules_data))
         IN  IF r.kind = "raise"
             THEN r
             ELSE BuildRules(reg, Tail(rules_data), AppendRule(rules, r.value))

\* line 61: CleanupPolicy(policy_name, *rules)
MakePolicy(policy_name, rules) == CleanupPolicy(policy_name, rules)

\* lines 55-63: the loop over config["artifactory-cleanup"]["policies"]
RECURSIVE BuildPolicies(_, _, _)
BuildPolicies(reg, policies_data, policies) ==
    IF policies_data = <<>>
    THEN Return(policies)
    ELSE LET policy_data == Head(policies_data)
             built == BuildRules(reg, policy_data.rules, <<>>)
         IN  IF built.kind = "raise"
             THEN built
             ELSE BuildPolicies(reg, Tail(policies_data),
                      AppendPolicy(policies, MakePolicy(policy_data.name, built.value)))

\* a faulty line 52: a file that cannot be loaded ends the process
LoadConfigOrExit(file) ==
    CASE file.state = "missing" -> Exit(1, "FileNotFoundError")
      [] file.state = "garbled" -> Exit(1, "YAMLError")
      [] file.state = "noroot" -> Exit(1, "KeyError")
      [] OTHER -> Return(file.policies)

\* line 52: yaml.safe_load(self.filepath.read_text()), then the two lookups of line 55
LoadConfig(file) ==
    CASE file.state = "missing" -> Raise("FileNotFoundError", "filepath")
      [] file.state = "garbled" -> Raise("YAMLError", "filepath")
      [] file.state = "noroot" -> Raise("KeyError", "artifactory-cleanup")
      [] OTHER -> Return(file.policies)

\* YamlConfigLoader.get_policies
YamlConfigLoader_get_policies(reg, file) ==
    LET config == LoadConfig(file)
    IN  IF config.kind # "return"
        THEN config
        ELSE BuildPolicies(reg, config.value, <<>>)

\* ------------------------------------------------- python policies file
\* the elements a RULES list holds: CleanupPolicy objects and one other object
RulesElements ==
    { [type |-> "CleanupPolicy", id |-> "p1"],
      [type |-> "CleanupPolicy", id |-> "p2"],
      [type |-> "str", id |-> "junk"] }

\* isinstance(policy, CleanupPolicy)
IsCleanupPolicy(policy) == policy.type = "CleanupPolicy"

\* self.filepath.parent and self.filepath.stem of /etc/cleanup/policies.py
PolicyFilePath == [parent |-> "/etc/cleanup", stem |-> "policies", suffix |-> ".py"]

\* what the file is: absent, not python, importing a module that does not
\* resolve, defining no RULES, RULES = None, or RULES a list
PythonFiles ==
    { [state |-> st, RULES |-> <<>>] :
        st \in {"missing", "syntax_error", "import_error", "no_RULES", "RULES_none"} }
    \cup { [state |-> "list", RULES |-> r] :
             r \in UNION { [1..n -> RulesElements] : n \in 0..MaxRULES } }

\* lines 92-96: the validation loop and the return
RECURSIVE Validate(_, _)
Validate(policies, i) ==
    IF i > Len(policies)
    THEN Return(policies)
    ELSE IF ~IsCleanupPolicy(policies[i])
         THEN Exit(1, <<"Policy", policies[i].id, "is not CleanupPolicy">>)
         ELSE Validate(policies, i + 1)

\* a faulty get_policies: RULES is returned without the validation loop
PythonPoliciesLoader_get_policies_unchecked(path, modules, filepath, file) ==
    LET path1 == Append(path, filepath.parent)
        loaded == modules \cup {filepath.stem}
    IN  CASE file.state \in {"missing", "import_error"} ->
               [out |-> Exit(1, <<"Error:", file.state>>), path |-> path1, modules |-> modules]
          [] file.state = "syntax_error" ->
               [out |-> Raise("SyntaxError", filepath.stem), path |-> path1, modules |-> modules]
          [] file.state = "no_RULES" ->
               [out |-> Raise("AttributeError", "RULES"), path |-> path1, modules |-> loaded]
          [] file.state = "RULES_none" ->
               [out |-> Raise("TypeError", "RULES"), path |-> path1, modules |-> loaded]
          [] OTHER ->
               [out |-> Return(file.RULES), path |-> path1, modules |-> loaded]

\* PythonPoliciesLoader.get_policies: the outcome, sys.path and sys.modules after it
PythonPoliciesLoader_get_policies(path, modules, filepath, file) ==
    LET path1 == Append(path, filepath.parent)
        loaded == modules \cup {filepath.stem}
    IN  CASE file.state \in {"missing", "import_error"} ->
               [out |-> Exit(1, <<"Error:", file.state>>), path |-> path1, modules |-> modules]
          [] file.state = "syntax_error" ->
               [out |-> Raise("SyntaxError", filepath.stem), path |-> path1, modules |-> modules]
          [] file.state = "no_RULES" ->
               [out |-> Raise("AttributeError", "RULES"), path |-> path1, modules |-> loaded]
          [] file.state = "RULES_none" ->
               [out |-> Raise("TypeError", "RULES"), path |-> path1, modules |-> loaded]
          [] OTHER ->
               [out |-> Validate(file.RULES, 1), path |-> path1, modules |-> loaded]

VARIABLES pc, registry, call, result, sysPath, sysModules

vars == <<pc, registry, call, result, sysPath, sysModules>>

\* sys.path and sys.modules of the interpreter before any loader runs
BaseSysPath == <<"/usr/lib/python">>
BaseSysModules == {"artifactory_cleanup"}

\* the module is being imported: line 37 has built the registry
Init ==
    /\ pc = "import"
    /\ registry = EmptyRegistry
    /\ call = [op |-> "RuleRegistry"]
    /\ result = Return("registry")
    /\ sysPath = BaseSysPath
    /\ sysModules = BaseSysModules

\* line 38: registry.register_builtin_rules()
RegisterBuiltinRules ==
    /\ pc = "import"
    /\ \E items \in ItemSeqs :
          /\ registry' = register_builtin_rules(registry, items)
          /\ call' = [op |-> "register_builtin_rules", items |-> items]
    /\ result' = Return("None")
    /\ pc' = "ready"
    /\ UNCHANGED <<sysPath, sysModules>>

\* a caller registers a rule class: registry.register(rule, name, warning)
Register ==
    /\ pc = "ready"
    /\ \E rule \in RuleTypes, name \in NameArgs, warning \in BOOLEAN :
          /\ registry' = register(registry, rule, name, warning)
          /\ call' = [op |-> "register", rule |-> rule, name |-> name,
                      warning |-> warning, before |-> registry]
    /\ result' = Return("None")
    /\ UNCHANGED <<pc, sysPath, sysModules>>

\* a caller looks a name up: registry.get(name)
Get ==
    /\ pc = "ready"
    /\ \E name \in LookupNames :
          LET g == get(registry, name)
          IN  /\ registry' = g.rules
              /\ result' = g.out
              /\ call' = [op |-> "get", name |-> name, before |-> registry]
    /\ UNCHANGED <<pc, sysPath, sysModules>>

\* a caller resolves one rule record: loader._build_rule(rule_data)
BuildRule ==
    /\ pc = "ready"
    /\ \E rule_data \in RuleRecords :
          /\ result' = _build_rule(registry, rule_data)
          /\ call' = [op |-> "_build_rule", rule_data |-> rule_data]
    /\ pc' = "loaded"
    /\ UNCHANGED <<registry, sysPath, sysModules>>

\* the caller loads the policies of a YAML file: YamlConfigLoader(f).get_policies()
YamlGetPolicies ==
    /\ pc = "ready"
    /\ \E file \in YamlFiles :
          /\ result' = YamlConfigLoader_get_policies(registry, file)
          /\ call' = [op |-> "yaml_get_policies", file |-> file]
          /\ pc' = IF result'.kind = "exit" THEN "exited" ELSE "loaded"
    /\ UNCHANGED <<registry, sysPath, sysModules>>

\* the caller loads the policies of a python file: PythonPoliciesLoader(f).get_policies()
PythonGetPolicies ==
    /\ pc = "ready"
    /\ \E file \in PythonFiles :
          LET r == PythonPoliciesLoader_get_policies(sysPath, sysModules, PolicyFilePath, file)
          IN  /\ result' = r.out
              /\ sysPath' = r.path
              /\ sysModules' = r.modules
              /\ call' = [op |-> "python_get_policies", file |-> file]
              /\ pc' = IF r.out.kind = "exit" THEN "exited" ELSE "loaded"
    /\ UNCHANGED registry

Next == RegisterBuiltinRules \/ Register \/ Get

Spec == Init /\ [][Next]_vars
\* ------------------------------------------------- the loaders' runs
\* the registries a process can hold once its start-up registrations are done:
\* register_builtin_rules and explicit register calls reach every mapping of
\* the two registered names to rule classes
Registries ==
    UNION { [D -> RuleTypes] : D \in SUBSET {"repo", "older_than"} }

InitLoad ==
    /\ pc = "ready"
    /\ registry \in Registries
    /\ call = [op |-> "RuleRegistry"]
    /\ result = Return("registry")
    /\ sysPath = BaseSysPath
    /\ sysModules = BaseSysModules

NextLoad == Get \/ BuildRule \/ YamlGetPolicies \/ PythonGetPolicies

SpecLoad == InitLoad /\ [][NextLoad]_vars
\* ------------------------------------------------------------ properties
\* the registered name a rule record asks for, and its remaining parameters
RuleNameOf(rule_data) == (CHOOSE q \in rule_data : q[1] = "rule")[2]
ParamsOf(rule_data) == { q \in rule_data : q[1] # "rule" }

\* the record names no registered rule
Unknown(reg, rule_data) == RuleNameOf(rule_data) \notin DOMAIN reg

\* the record is a repository selector without parameters
BareRepo(reg, rule_data) ==
    /\ ~Unknown(reg, rule_data)
    /\ reg[RuleNameOf(rule_data)] = "Repo"
    /\ ParamsOf(rule_data) = {}

\* the record's rule class rejects the record's parameters
Rejected(reg, rule_data) ==
    /\ ~Unknown(reg, rule_data)
    /\ ~BareRepo(reg, rule_data)
    /\ {q[1] : q \in ParamsOf(rule_data)} # Signature(reg[RuleNameOf(rule_data)])

Fails(reg, rule_data) == Unknown(reg, rule_data) \/ Rejected(reg, rule_data)

\* the positions <<policy index, rule index>> of a document, and their order
Positions(doc) == UNION { { <<i, j>> : j \in DOMAIN doc[i].rules } : i \in DOMAIN doc }
Before(a, b) == a[1] < b[1] \/ (a[1] = b[1] /\ a[2] < b[2])
RecordAt(doc, a) == doc[a[1]].rules[a[2]]

YamlCalled == call.op = "yaml_get_policies"
DocLoaded == YamlCalled /\ call.file.state = "doc"

\* C1: when a name N already has an entry T, register(T2, N) with warning=True
\* leaves the entry T, and with warning=False makes the entry T2.
C1_RegisterConflict ==
    call.op = "register" =>
        LET n == EffectiveName(call.rule, call.name)
        IN  n \in DOMAIN call.before =>
               /\ n \in DOMAIN registry
               /\ call.warning => registry[n] = call.before[n]
               /\ ~call.warning => registry[n] = call.rule

C1_Witness ==
    /\ call.op = "register"
    /\ call.name = "repo"
    /\ call.warning
    /\ "repo" \in DOMAIN call.before
    /\ call.before["repo"] = "Repo"
    /\ call.rule = "OlderThan"
    /\ registry["repo"] = "Repo"

\* C9: register_builtin_rules completes, every name declared by an enumerated
\* rule class then has an entry, and the entry is the first enumerated class
\* that declares the name.
C9_Builtins ==
    call.op = "register_builtin_rules" =>
        /\ pc = "ready"
        /\ \A i \in DOMAIN call.items :
              IsRuleClass(call.items[i]) =>
                 LET n == DeclName(call.items[i])
                     first == CHOOSE k \in DOMAIN call.items :
                                 /\ IsRuleClass(call.items[k])
                                 /\ DeclName(call.items[k]) = n
                                 /\ \A m \in 1..(k - 1) :
                                       ~(IsRuleClass(call.items[m]) /\ DeclName(call.items[m]) = n)
                 IN  /\ get(registry, n).out.kind = "return"
                     /\ registry[n] = call.items[first]

C9_Witness ==
    /\ call.op = "register_builtin_rules"
    /\ call.items = <<"Repo", "RepoLegacy">>
    /\ registry["repo"] = "Repo"

C3_AnyUnknownRecordNamed ==
    DocLoaded =>
        \A a \in Positions(call.file.policies) :
            Unknown(registry, RecordAt(call.file.policies, a)) =>
                result = Raise("KeyError", RuleNameOf(RecordAt(call.file.policies, a)))

\* C3: a document with a rule record of unregistered name makes get_policies
\* raise; the error is KeyError carrying that record's name when no earlier
\* record of the document fails. RuleRegistry.get of an absent name raises
\* KeyError with the name and leaves the entries as they were.
C3_FirstUnknownRecordNamed ==
    /\ DocLoaded =>
          LET doc == call.file.policies
          IN  \A a \in Positions(doc) :
                 Unknown(registry, RecordAt(doc, a)) =>
                    /\ result.kind = "raise"
                    /\ (\A b \in Positions(doc) :
                           Before(b, a) => ~Fails(registry, RecordAt(doc, b)))
                       => result = Raise("KeyError", RuleNameOf(RecordAt(doc, a)))
    /\ (call.op = "get" /\ call.name \notin DOMAIN call.before) =>
          /\ result = Raise("KeyError", call.name)
          /\ registry = call.before

C3_Witness ==
    /\ DocLoaded
    /\ Len(call.file.policies) = 2
    /\ Len(call.file.policies[2].rules) = 2
    /\ RuleNameOf(call.file.policies[2].rules[2]) = "nope"
    /\ Len(call.file.policies[1].rules) = 1
    /\ ~Fails(registry, call.file.policies[1].rules[1])
    /\ ~Fails(registry, call.file.policies[2].rules[1])
    /\ result = Raise("KeyError", "nope")

\* C4: a RULES list of CleanupPolicy objects only is returned as it is; a list
\* with any other element ends the process with a non-zero status.
C4_RulesList ==
    (call.op = "python_get_policies" /\ call.file.state = "list") =>
        IF \A i \in DOMAIN call.file.RULES : IsCleanupPolicy(call.file.RULES[i])
        THEN result = Return(call.file.RULES)
        ELSE /\ result.kind = "exit"
             /\ result.status # 0
             /\ pc = "exited"

C4_Witness ==
    /\ call.op = "python_get_policies"
    /\ call.file.state = "list"
    /\ Len(call.file.RULES) = 2
    /\ call.file.RULES[1].id = "p1"
    /\ call.file.RULES[2].id = "p2"
    /\ result = Return(call.file.RULES)

\* C5: whenever the python file cannot be loaded (import fails, or RULES is
\* absent or malformed) the process exits with a non-zero status and a printed
\* diagnostic, and nothing is raised to the caller.
C5_LoadFailureExits ==
    (call.op = "python_get_policies" /\ call.file.state # "list") =>
        /\ result.kind = "exit"
        /\ result.status # 0
        /\ result.printed # <<>>

\* C6: every rule of a policy built by get_policies is an instance, and a
\* repository selector record without parameters is Repo(name of its policy).
C6_NoBareType ==
    (DocLoaded /\ result.kind = "return") =>
        \A i \in DOMAIN result.value :
            \A j \in DOMAIN result.value[i].rules :
                /\ result.value[i].rules[j].inst
                /\ BareRepo(registry, call.file.policies[i].rules[j]) =>
                      result.value[i].rules[j] =
                          Instance("Repo", {<<"name", call.file.policies[i].name>>})

C6_Witness ==
    /\ DocLoaded
    /\ result.kind = "return"
    /\ Len(result.value) = 2
    /\ call.file.policies[1] = [name |-> "cleanup-a", rules |-> <<{<<"rule", "repo">>}>>]
    /\ call.file.policies[2] = [name |-> "cleanup-b", rules |-> <<{<<"rule", "repo">>}>>]
    /\ result.value[1].rules[1] = Instance("Repo", {<<"name", "cleanup-a">>})
    /\ result.value[2].rules[1] = Instance("Repo", {<<"name", "cleanup-b">>})

\* C7: get_policies of the YAML loader never ends the process; a file that is
\* missing, unparseable or without the policies tree, an unregistered rule
\* name and a rejected parameter each end it with a raised exception, and
\* then no list is returned.
C7_YamlFailuresRaise ==
    YamlCalled =>
        /\ result.kind \in {"return", "raise"}
        /\ pc = "loaded"
        /\ (\/ call.file.state # "doc"
            \/ \E a \in Positions(call.file.policies) :
                  Fails(registry, RecordAt(call.file.policies, a)))
           => result.kind = "raise"

C7_Witness ==
    /\ DocLoaded
    /\ Len(call.file.policies) = 2
    /\ Len(call.file.policies[1].rules) = 1
    /\ ~Fails(registry, call.file.policies[1].rules[1])
    /\ Len(call.file.policies[2].rules) = 1
    /\ Rejected(registry, call.file.policies[2].rules[1])
    /\ result.kind = "raise"
    /\ result.exc = "TypeError"

\* C8: after a loader's get_policies has finished, sys.path and sys.modules
\* are what they were before the call.
C8_ResourcesScoped ==
    (pc = "loaded" /\ call.op \in {"python_get_policies", "yaml_get_policies"}) =>
        /\ sysPath = BaseSysPath
        /\ sysModules = BaseSysModules

\* C10: _build_rule returns the bare class exactly when the resolved class is
\* Repo and no parameter is left after removing the rule key; otherwise it
\* instantiates the resolved class with exactly the remaining parameters.
C10_DeferOnlyBareRepo ==
    (call.op = "_build_rule" /\ ~Unknown(registry, call.rule_data)) =>
        LET cls == registry[RuleNameOf(call.rule_data)]
            params == ParamsOf(call.rule_data)
        IN  IF cls = "Repo" /\ params = {}
            THEN result = Return(BareType("Repo"))
            ELSE /\ result = Construct(cls, params)
                 /\ result.kind = "return" =>
                       /\ result.value.inst
                       /\ result.value.cls = cls
                       /\ result.value.kwargs = params

C10_Witness ==
    /\ call.op = "_build_rule"
    /\ call.rule_data = {<<"rule", "repo">>, <<"name", "r">>}
    /\ "repo" \in DOMAIN registry
    /\ registry["repo"] = "Repo"
    /\ result = Return(Instance("Repo", {<<"name", "r">>}))
====
